---- MODULE Spec2Model ----
(***************************************************************************)
(* A model of app.py, the AnveshAI video generator: the /generate request  *)
(* handler (frame fetcher with retries, frame orchestrator, video          *)
(* assembler, metadata insert), the admin endpoints (login, logout,        *)
(* delete, stats) and the files they share (the frames directory, the      *)
(* videos directory, the metadata document).                               *)
(*                                                                         *)
(* Every request is served by a handler h (a worker thread of the Flask    *)
(* server).  hs[h].pc is the handler's position in its route function.     *)
(* Steps that touch shared files are separate actions, so that two         *)
(* handlers can interleave between them.                                   *)
(***************************************************************************)
EXTENDS Integers, Sequences, FiniteSets, TLC

VARIABLES
    adminPassword,  \* ADMIN_PASSWORD, read once from the environment (line 20)
    serial,         \* TRUE: the server handles one request at a time
    flaky,          \* TRUE: the image service may fail single attempts at will
    session,        \* session[s]: the admin_logged_in flag of client session s
    metaFile,       \* content of video_metadata.json, or NoFile
    videoFiles,     \* names of the files in static/videos
    frames,         \* frames[i]: who wrote frames/frame_<i>.png (Absent: no file)
    now,            \* the last value of int(time.time()) any handler has read
    hs,             \* hs[h]: the locals of handler h (sent, failures: history
                    \* of the frame being fetched; outage: the service's state)
    genOK,          \* history: number of /generate requests answered with success
    clip,           \* the clip create_video is working on (SpecVideo only)
    requests        \* history: requests[h] is the number of HTTP requests the
                    \* run of handler h has sent so far (SpecLive only)

vars == <<adminPassword, serial, flaky, session, metaFile, videoFiles, frames,
          now, hs, genOK, clip, requests>>

----------------------------------------------------------------------------
(* Bounds of the model *)

\* the clock stops at MaxTime: at most MaxTime timestamps are handed out
MaxTime == 3
\* longest frame list given to create_video in SpecVideo
MaxClipFrames == 150

(* Program constants *)

max_retries == 5
MinFrames == 10
MaxFrames == 20
DefaultFrames == 15
fps == 24
MinSeconds == 4
MaxSeconds == 6
RateLimitStep == 5
RetryWait == 3
FramePause == 2

Handlers == {"h1", "h2"}
Sessions == {"s1", "s2"}

\* Python's None where a string is expected (a missing JSON key, an unset
\* environment variable)
None == "None"
\* frames[i] when frames/frame_<i>.png does not exist
Absent == "absent"
\* mutant: the path returned is that of the next frame, not of the file written
Path_OfNextFrame(i) == <<i + 1>>
\* the path of frame i, os.path.join(FRAMES_DIR, f"frame_{index:03d}.png"),
\* and the None that generate_image_async returns for a failed frame
Path(i) == <<i>>
NoPath == <<>>
\* video_metadata.json does not exist
NoFile == <<>>

\* the random part of a video id: random.randint(1000, 9999); two of its values
RandIds == {1000, 9999}

\* request bodies' prompt values (a missing key reads as the empty string)
PromptInputs == {<<>>, <<" ">>, <<"a">>, <<" ", "b", " ">>}
\* request bodies' num_frames values: <<n>>, or <<>> when the key is missing
FrameInputs == {<<>>, <<9>>, <<10>>, <<20>>, <<21>>}
\* what a login request may carry as password; None: the key is missing
PasswordInputs == {None, "", "pw", "guess"}
\* what ADMIN_PASSWORD may be configured to
PasswordConfigs == {None, "", "pw"}
\* outcomes of one HTTP attempt: a status, or an exception raised in the try block
Outcomes == {"200", "429", "503", "exc"}
\* the frames the image service may fail for good while it is not out: of a
\* flaky service the first frame, frame 3 and the last of 15; of a steady
\* service frame 3
FlakyBadFrames == {0, 3, 14}
SteadyBadFrames == {3}

----------------------------------------------------------------------------
(* Pure helpers *)

\* mutant: the empty string counts as a password
Truthy_EmptyIsTrue(x) == x # None

\* Python truthiness of a string-or-None value (`if not ADMIN_PASSWORD`,
\* `if password and ...`)
Truthy(x) == x # None /\ x # ""

RECURSIVE LStrip(_)
LStrip(s) == IF s # <<>> /\ Head(s) = " " THEN LStrip(Tail(s)) ELSE s

RECURSIVE RStrip(_)
RStrip(s) ==
    IF s # <<>> /\ s[Len(s)] = " " THEN RStrip(SubSeq(s, 1, Len(s) - 1)) ELSE s

\* str.strip()
Strip(s) == RStrip(LStrip(s))

\* mutant: the lower bound itself is coerced too (<= for <)
CoerceFrames_LowerBoundOff(n) ==
    LET m == IF n = <<>> THEN DefaultFrames ELSE n[1]
    IN  IF m <= MinFrames \/ m > MaxFrames THEN DefaultFrames ELSE m

\* mutant: a count above 20 is let through
CoerceFrames_UpperBoundOff(n) ==
    LET m == IF n = <<>> THEN DefaultFrames ELSE n[1]
    IN  IF m < MinFrames THEN DefaultFrames ELSE m

\* lines 192, 197-198: the frame count handed to generate_frames
CoerceFrames(n) ==
    LET m == IF n = <<>> THEN DefaultFrames ELSE n[1]
    IN  IF m < MinFrames \/ m > MaxFrames THEN DefaultFrames ELSE m

\* mutant: the first frame's result is left out of the returned list
successful_frames_SkipFirst(fp) ==
    IF fp = <<>> THEN <<>> ELSE SelectSeq(Tail(fp), LAMBDA p : p # NoPath)

\* line 86: [path for path in frame_paths if path is not None]
successful_frames(fp) == SelectSeq(fp, LAMBDA p : p # NoPath)

\* load_metadata
EmptyDoc == [videos |-> <<>>, total_generated |-> 0]
load_metadata == IF metaFile = NoFile THEN EmptyDoc ELSE metaFile[1]

\* mutant: the record is appended, not inserted in front
Prepend_AtEnd(x, s) == Append(s, x)

\* list.insert(0, x)
Prepend(x, s) == <<x>> \o s

----------------------------------------------------------------------------
(* create_video's duration normalisation, in frames at 24 fps *)

\* clip.subclipped(0, t): the first t seconds; moviepy refuses an end beyond
\* the clip's duration
Subclipped(len, t) == IF t * fps <= len THEN t * fps ELSE -1

\* mutant: the one extra loop is forgotten
num_loops_NoExtra(n) == (MinSeconds * fps) \div n

\* line 105: int(4 / duration) + 1 with duration = n / fps
num_loops(n) == ((MinSeconds * fps) \div n) + 1

\* lines 102-109: length in frames of the clip that is written
FinalFrames(n) ==
    IF n < MinSeconds * fps
    THEN Subclipped(num_loops(n) * n, MinSeconds)
    ELSE IF n > MaxSeconds * fps
         THEN Subclipped(n, MaxSeconds)
         ELSE n

----------------------------------------------------------------------------
(* Handler locals *)

\* requests[h] is <<n>> after n HTTP requests of the run of handler h, and
\* NotCounted in the specifications that keep no count
NotCounted == <<>>
\* the count, where one is kept, when a run starts and when it sends a request
CountReset(c) == IF c = NotCounted THEN c ELSE <<0>>
CountOneMore(c) == IF c = NotCounted THEN c ELSE <<c[1] + 1>>

IdleH == [pc |-> "idle", kind |-> "none", sess |-> "s1", password |-> None,
          reqPrompt |-> <<>>, prompt |-> <<>>,
          reqFrames |-> <<>>, num_frames |-> 0,
          outage |-> FALSE,
          i |-> 0, attempt |-> 0, status |-> "none", wait |-> 0,
          sent |-> 0, failures |-> 0,
          frame_paths |-> <<>>, gv_frame_paths |-> <<>>,
          startTime |-> 0, timestamp |-> 0, video_len |-> 0,
          metadata |-> EmptyDoc, video_id |-> <<>>, video_to_delete |-> <<>>,
          code |-> 0, error |-> "", frames_generated |-> 0]

\* a request may start on an idle handler; when requests are serialised,
\* only while no other handler is busy
CanStart(h) ==
    /\ hs[h].pc = "idle"
    /\ serial => \A g \in Handlers : hs[g].pc = "idle"

\* return jsonify(...), code
Respond(r, code, error) ==
    [r EXCEPT !.pc = "done", !.code = code, !.error = error]

\* the handler has returned its response; the worker is free again
Return(h) ==
    /\ hs[h].pc = "done"
    /\ hs' = [hs EXCEPT ![h] = IdleH]
    /\ UNCHANGED <<adminPassword, serial, flaky, session, metaFile, videoFiles,
                   frames, now, genOK, clip,
                   requests>>

----------------------------------------------------------------------------
(* POST /generate: generate_video, generate_frames, generate_image_async *)

\* lines 190-198: read the body, reject an empty prompt, coerce the frame count
\* `out`: whether the image service is out for the whole run
GenerateStart(h, s, p, n, out) ==
    /\ CanStart(h)
    /\ now < MaxTime
    /\ LET r == [IdleH EXCEPT !.kind = "generate", !.sess = s,
                              !.reqPrompt = p, !.prompt = Strip(p),
                              !.reqFrames = n]
       IN  hs' = [hs EXCEPT ![h] =
                    IF r.prompt = <<>>
                    THEN Respond(r, 400, "Prompt is required")
                    ELSE [r EXCEPT !.pc = "cleanup",
                                   !.num_frames = CoerceFrames(n),
                                   !.startTime = now,
                                   !.outage = out]]
    /\ requests' = [requests EXCEPT ![h] = CountReset(@)]
    /\ UNCHANGED <<adminPassword, serial, flaky, session, metaFile, videoFiles,
                   frames, now, genOK, clip>>

\* mutant: the file of frame 1 is left where it is
cleanup_frames_KeepsOne ==
    [i \in DOMAIN frames |-> IF i = 1 THEN frames[i] ELSE Absent]

\* cleanup_frames, lines 122-130: every file of the frames directory is removed
cleanup_frames == [i \in DOMAIN frames |-> Absent]

\* line 201, then line 203 enters generate_frames(prompt, num_frames)
Cleanup(h) ==
    /\ hs[h].pc = "cleanup"
    /\ frames' = cleanup_frames
    /\ hs' = [hs EXCEPT ![h] = [@ EXCEPT !.pc = "get", !.i = 0, !.attempt = 0,
                                         !.frame_paths = <<>>]]
    /\ UNCHANGED <<adminPassword, serial, flaky, session, metaFile, videoFiles,
                   now, genOK, clip,
                   requests>>

\* line 45: session.get(url) is sent, attempt hs[h].attempt of frame hs[h].i
Issue(h) ==
    /\ hs[h].pc = "get"
    /\ hs' = [hs EXCEPT ![h] = [@ EXCEPT !.pc = "inflight", !.wait = 0,
                                         !.sent = @ + 1]]
    /\ requests' = [requests EXCEPT ![h] = CountOneMore(@)]
    /\ UNCHANGED <<adminPassword, serial, flaky, session, metaFile, videoFiles,
                   frames, now, genOK, clip>>

\* mutant: the pause follows the last frame too (<= for <)
FrameDone_PauseAfterLast(r, path) ==
    LET q == [r EXCEPT !.frame_paths = Append(@, path)]
    IN  IF r.i <= r.num_frames - 1
        THEN [q EXCEPT !.pc = "pause", !.wait = FramePause]
        ELSE [q EXCEPT !.pc = "collect", !.wait = 0]

\* lines 79-84: generate_image_async has returned `path` for frame r.i
FrameDone(r, path) ==
    LET q == [r EXCEPT !.frame_paths = Append(@, path)]
    IN  IF r.i < r.num_frames - 1
        THEN [q EXCEPT !.pc = "pause", !.wait = FramePause]
        ELSE [q EXCEPT !.pc = "collect", !.wait = 0]

\* The image service: whether outcome o may end the attempt in flight.
\* During an outage every attempt fails.  Otherwise the service may always
\* answer 200 with an image; a flaky service may fail any attempt but a
\* frame's last in any way, and the last one too for the frames of
\* FlakyBadFrames; a steady service is unreachable during an outage (a
\* transport error) and otherwise may only answer 429, to the requests for
\* the frames of SteadyBadFrames.
MayAnswer(r, o) ==
    IF flaky
    THEN IF o = "200"
         THEN ~r.outage
         ELSE \/ r.outage
              \/ r.attempt < max_retries - 1
              \/ r.i \in FlakyBadFrames
    ELSE CASE o = "200" -> ~r.outage
           [] o = "exc" -> r.outage
           [] o = "429" -> ~r.outage /\ r.i \in SteadyBadFrames
           [] OTHER     -> FALSE

\* lines 46-63: what one attempt does with outcome o
Attempt(r, o) ==
    LET q == [r EXCEPT !.status = o,
                       !.failures = IF o = "200" THEN @ ELSE @ + 1]
    IN  CASE o = "200" -> FrameDone(q, Path(r.i))
          [] o = "429" -> [q EXCEPT !.pc = "backoff",
                                    !.wait = (r.attempt + 1) * RateLimitStep]
          [] o = "exc" -> IF r.attempt < max_retries - 1
                          THEN [q EXCEPT !.pc = "backoff", !.wait = RetryWait]
                          ELSE FrameDone(q, NoPath)
          [] OTHER     -> [q EXCEPT !.pc = "backoff", !.wait = RetryWait]

\* the response (or the exception) of the request in flight arrives
Response(h, o) ==
    /\ hs[h].pc = "inflight"
    /\ MayAnswer(hs[h], o)
    /\ frames' = IF o = "200" THEN [frames EXCEPT ![hs[h].i] = h] ELSE frames
    /\ hs' = [hs EXCEPT ![h] = Attempt(@, o)]
    /\ UNCHANGED <<adminPassword, serial, flaky, session, metaFile, videoFiles,
                   now, genOK, clip,
                   requests>>

\* mutant: the loop runs once more (<= for <)
AfterSleep_OneMore(r) ==
    IF r.attempt + 1 <= max_retries
    THEN [r EXCEPT !.pc = "get", !.attempt = @ + 1, !.wait = 0,
                   !.status = "none"]
    ELSE FrameDone(r, NoPath)

\* mutant: the attempt is not counted, the loop never runs out
AfterSleep_SameAttempt(r) ==
    [r EXCEPT !.pc = "get", !.wait = 0, !.status = "none"]

\* lines 43, 56, 59, 63-66: the sleep is over; the for loop takes its next
\* attempt, or is exhausted and None is returned
AfterSleep(r) ==
    IF r.attempt + 1 < max_retries
    THEN [r EXCEPT !.pc = "get", !.attempt = @ + 1, !.wait = 0,
                   !.status = "none"]
    ELSE FrameDone(r, NoPath)

Backoff(h) ==
    /\ hs[h].pc = "backoff"
    /\ hs' = [hs EXCEPT ![h] = AfterSleep(@)]
    /\ UNCHANGED <<adminPassword, serial, flaky, session, metaFile, videoFiles,
                   frames, now, genOK, clip,
                   requests>>

\* lines 76, 83-84: the pause between two frames is over
Pause(h) ==
    /\ hs[h].pc = "pause"
    /\ hs' = [hs EXCEPT ![h] = [@ EXCEPT !.pc = "get", !.i = @ + 1,
                                         !.attempt = 0, !.wait = 0,
                                         !.status = "none",
                                         !.sent = 0, !.failures = 0]]
    /\ UNCHANGED <<adminPassword, serial, flaky, session, metaFile, videoFiles,
                   frames, now, genOK, clip,
                   requests>>

\* lines 86-91 and 203-206: the successful frames are returned; none is an error
Collect(h) ==
    /\ hs[h].pc = "collect"
    /\ LET got == successful_frames(hs[h].frame_paths)
           r   == [hs[h] EXCEPT !.gv_frame_paths = got]
       IN  hs' = [hs EXCEPT ![h] =
                    IF got = <<>>
                    THEN Respond(r, 500, "Failed to generate frames")
                    ELSE [r EXCEPT !.pc = "create"]]
    /\ UNCHANGED <<adminPassword, serial, flaky, session, metaFile, videoFiles,
                   frames, now, genOK, clip,
                   requests>>

\* the values int(time.time()) may return to handler r at line 208: the clock
\* does not run backwards, and the run has slept through at least
\* MinFrames - 1 two-second pauses since it started
ClockReadings(r) == {t \in now..MaxTime : t > r.startTime}

\* every file create_video is to open exists
FramesPresent(r) ==
    \A k \in 1..Len(r.gv_frame_paths) : frames[r.gv_frame_paths[k][1]] # Absent

\* lines 208-211: create_video writes static/videos/anvesh_video_<t>.mp4
CreateVideo(h, t) ==
    /\ hs[h].pc = "create"
    /\ t \in ClockReadings(hs[h])
    /\ FramesPresent(hs[h])
    /\ now' = t
    /\ videoFiles' = videoFiles \cup {t}
    /\ hs' = [hs EXCEPT ![h] =
                [@ EXCEPT !.pc = "cleanup2", !.timestamp = t,
                          !.video_len =
                              FinalFrames(Len(hs[h].gv_frame_paths))]]
    /\ UNCHANGED <<adminPassword, serial, flaky, session, metaFile, frames,
                   genOK, clip,
                   requests>>

\* lines 118-120, 238: create_video raises: a frame file is missing, or the
\* resize or the encoder fails; the encoder may have created the file by then
CreateVideoFail(h, t, wrote) ==
    /\ hs[h].pc = "create"
    /\ t \in ClockReadings(hs[h])
    /\ wrote => FramesPresent(hs[h])
    /\ now' = t
    /\ videoFiles' = IF wrote THEN videoFiles \cup {t} ELSE videoFiles
    /\ hs' = [hs EXCEPT ![h] = [@ EXCEPT !.pc = "except", !.timestamp = t,
                                         !.error = "create_video"]]
    /\ UNCHANGED <<adminPassword, serial, flaky, session, metaFile, frames,
                   genOK, clip,
                   requests>>

\* line 213
Cleanup2(h) ==
    /\ hs[h].pc = "cleanup2"
    /\ frames' = cleanup_frames
    /\ hs' = [hs EXCEPT ![h] = [@ EXCEPT !.pc = "load"]]
    /\ UNCHANGED <<adminPassword, serial, flaky, session, metaFile, videoFiles,
                   now, genOK, clip,
                   requests>>

\* lines 215-216: the document is read and the id is drawn
LoadMeta(h, rnd) ==
    /\ hs[h].pc = "load"
    /\ hs' = [hs EXCEPT ![h] = [@ EXCEPT !.pc = "save",
                                         !.metadata = load_metadata,
                                         !.video_id = <<hs[h].timestamp, rnd>>]]
    /\ UNCHANGED <<adminPassword, serial, flaky, session, metaFile, videoFiles,
                   frames, now, genOK, clip,
                   requests>>

\* lines 218-225: the record of the new video
video_info(r) ==
    [id |-> r.video_id, filename |-> r.timestamp, prompt |-> r.prompt,
     num_frames |-> Len(r.gv_frame_paths)]

\* lines 227-228: the loaded document with the record in front and the
\* counter one higher
Inserted(r) ==
    [videos |-> Prepend(video_info(r), r.metadata.videos),
     total_generated |-> r.metadata.total_generated + 1]

\* lines 224-236: the file's size is read, the document is written back and
\* success is returned
SaveMeta(h) ==
    /\ hs[h].pc = "save"
    /\ hs[h].timestamp \in videoFiles
    /\ metaFile' = <<Inserted(hs[h])>>
    /\ hs' = [hs EXCEPT ![h] =
                [Respond(@, 200, "") EXCEPT
                    !.metadata = Inserted(hs[h]),
                    !.frames_generated = Len(hs[h].gv_frame_paths)]]
    /\ genOK' = genOK + 1
    /\ UNCHANGED <<adminPassword, serial, flaky, session, videoFiles, frames,
                   now, clip,
                   requests>>

\* line 224 raises: os.path.getsize finds no file (it was deleted meanwhile)
SaveMetaFail(h) ==
    /\ hs[h].pc = "save"
    /\ hs[h].timestamp \notin videoFiles
    /\ hs' = [hs EXCEPT ![h] = [@ EXCEPT !.pc = "except", !.error = "getsize"]]
    /\ UNCHANGED <<adminPassword, serial, flaky, session, metaFile, videoFiles,
                   frames, now, genOK, clip,
                   requests>>

\* lines 238-240
Except(h) ==
    /\ hs[h].pc = "except"
    /\ frames' = cleanup_frames
    /\ hs' = [hs EXCEPT ![h] = Respond(@, 500, hs[h].error)]
    /\ UNCHANGED <<adminPassword, serial, flaky, session, metaFile, videoFiles,
                   now, genOK, clip,
                   requests>>

\* one step of a /generate handler after the request has been read; Rnd: the
\* values random.randint may return at line 216
GenerateStep(h, Rnd) ==
    \/ Cleanup(h)
    \/ Issue(h)
    \/ \E o \in Outcomes : Response(h, o)
    \/ Backoff(h)
    \/ Pause(h)
    \/ Collect(h)
    \/ \E t \in 1..MaxTime : CreateVideo(h, t)
    \/ \E t \in 1..MaxTime, wrote \in BOOLEAN : CreateVideoFail(h, t, wrote)
    \/ Cleanup2(h)
    \/ \E rnd \in Rnd : LoadMeta(h, rnd)
    \/ SaveMeta(h)
    \/ Except(h)

----------------------------------------------------------------------------
(* The admin endpoints: /admin/login, /admin/logout, /admin/delete, /stats *)

\* lines 148-156: POST /admin/login with password pw (None: no such key)
Login(h, s, pw) ==
    /\ CanStart(h)
    /\ LET r  == [IdleH EXCEPT !.kind = "login", !.sess = s, !.password = pw]
           ok == Truthy(pw) /\ pw = adminPassword
       IN  IF ~Truthy(adminPassword)
           THEN /\ hs' = [hs EXCEPT ![h] =
                            Respond(r, 500, "Admin password not configured")]
                /\ UNCHANGED session
           ELSE IF ok
                THEN /\ session' = [session EXCEPT ![s] = TRUE]
                     /\ hs' = [hs EXCEPT ![h] = Respond(r, 200, "")]
                ELSE /\ hs' = [hs EXCEPT ![h] =
                                 Respond(r, 401, "Invalid password")]
                     /\ UNCHANGED session
    /\ UNCHANGED <<adminPassword, serial, flaky, metaFile, videoFiles, frames,
                   now, genOK, clip,
                   requests>>

\* lines 159-162: GET /admin/logout
Logout(h, s) ==
    /\ CanStart(h)
    /\ session' = [session EXCEPT ![s] = FALSE]
    /\ hs' = [hs EXCEPT ![h] =
                Respond([IdleH EXCEPT !.kind = "logout", !.sess = s], 302, "")]
    /\ UNCHANGED <<adminPassword, serial, flaky, metaFile, videoFiles, frames,
                   now, genOK, clip,
                   requests>>

\* lines 249-261: GET /stats; the count of stored videos is reported in
\* frames_generated's place
Stats(h, s) ==
    /\ CanStart(h)
    /\ LET r == [IdleH EXCEPT !.kind = "stats", !.sess = s]
       IN  hs' = [hs EXCEPT ![h] =
                    IF ~session[s]
                    THEN Respond(r, 401, "Unauthorized")
                    ELSE Respond([r EXCEPT !.metadata = load_metadata], 200, "")]
    /\ UNCHANGED <<adminPassword, serial, flaky, session, metaFile, videoFiles,
                   frames, now, genOK, clip,
                   requests>>

\* lines 170-175: the first record with the id, as <<record>>, or <<>>
Find(videos, id) ==
    LET hits == SelectSeq(videos, LAMBDA v : v.id = id)
    IN  IF hits = <<>> THEN <<>> ELSE <<Head(hits)>>

\* lines 166-177, 186: DELETE /admin/delete/<id>: the session is checked, the
\* document is read and the record is looked up
DeleteStart(h, s, id) ==
    /\ CanStart(h)
    /\ LET r   == [IdleH EXCEPT !.kind = "delete", !.sess = s, !.video_id = id]
           doc == load_metadata
           hit == Find(doc.videos, id)
       IN  hs' = [hs EXCEPT ![h] =
                    IF ~session[s]
                    THEN Respond(r, 401, "Unauthorized")
                    ELSE IF hit = <<>>
                         THEN Respond([r EXCEPT !.metadata = doc],
                                      404, "Video not found")
                         ELSE [r EXCEPT !.pc = "dremove", !.metadata = doc,
                                        !.video_to_delete = hit]]
    /\ UNCHANGED <<adminPassword, serial, flaky, session, metaFile, videoFiles,
                   frames, now, genOK, clip,
                   requests>>

\* lines 178-180: the record's file is removed if it exists
DeleteRemove(h) ==
    /\ hs[h].pc = "dremove"
    /\ videoFiles' = videoFiles \ {hs[h].video_to_delete[1].filename}
    /\ hs' = [hs EXCEPT ![h] = [@ EXCEPT !.pc = "dsave"]]
    /\ UNCHANGED <<adminPassword, serial, flaky, session, metaFile, frames,
                   now, genOK, clip,
                   requests>>

\* mutant: the newest record is dropped, whatever its id
Removed_DropsNewest(r) ==
    [r.metadata EXCEPT !.videos = Tail(@)]

\* mutant: the counter is set to the number of records that are left
Removed_Recounts(r) ==
    LET left == SelectSeq(r.metadata.videos, LAMBDA v : v.id # r.video_id)
    IN  [videos |-> left, total_generated |-> Len(left)]

\* line 182: the document read at line 169 without the records of that id
Removed(r) ==
    [r.metadata EXCEPT
        !.videos = SelectSeq(@, LAMBDA v : v.id # r.video_id)]

\* lines 182-184: the document is written back
DeleteSave(h) ==
    /\ hs[h].pc = "dsave"
    /\ metaFile' = <<Removed(hs[h])>>
    /\ hs' = [hs EXCEPT ![h] =
                [Respond(@, 200, "") EXCEPT !.metadata = Removed(hs[h])]]
    /\ UNCHANGED <<adminPassword, serial, flaky, session, videoFiles, frames,
                   now, genOK, clip,
                   requests>>

DeleteStep(h) == DeleteRemove(h) \/ DeleteSave(h)

----------------------------------------------------------------------------
(* The generation pipeline alone: /generate requests on a fresh             *)
(* installation, one at a time on one worker, against a flaky image service *)

FrameIdx == 0..(MaxFrames - 1)

NoClip == [n |-> 0, len |-> 0, stage |-> "none"]

InitCommon ==
    /\ session = [s \in Sessions |-> FALSE]
    /\ metaFile = NoFile
    /\ videoFiles = {}
    /\ frames = [i \in FrameIdx |-> Absent]
    /\ now = 0
    /\ hs = [h \in Handlers |-> IdleH]
    /\ genOK = 0
    /\ clip = NoClip

\* a frame file that a server process killed in mid-run has left behind
LeftOver == "old"

\* the frames directory is empty, or holds a frame file of an earlier process
InitFetch ==
    /\ session = [s \in Sessions |-> FALSE]
    /\ metaFile = NoFile
    /\ videoFiles = {}
    /\ frames \in {[i \in FrameIdx |-> Absent],
                   [i \in FrameIdx |-> IF i = 1 THEN LeftOver ELSE Absent]}
    /\ now = 0
    /\ hs = [h \in Handlers |-> IdleH]
    /\ genOK = 0
    /\ clip = NoClip
    /\ adminPassword = None
    /\ serial = TRUE
    /\ flaky = TRUE
    /\ requests = [h \in Handlers |-> NotCounted]

\* the prompts the clients of this specification send
FetchPromptInputs == {<<>>, <<" ">>, <<"a">>}

\* /generate requests arrive until the first video has been recorded
NextFetch ==
    \/ /\ metaFile = NoFile
       /\ \E p \in FetchPromptInputs, n \in FrameInputs, out \in BOOLEAN :
            GenerateStart("h1", "s1", p, n, out)
    \/ GenerateStep("h1", RandIds)
    \/ Return("h1")

SpecFetch == InitFetch /\ [][NextFetch]_vars

----------------------------------------------------------------------------
(* The whole server with requests handled one at a time on one worker,     *)
(* against a steady image service that is never out                        *)

\* the frame counts and the video ids the clients of this specification
\* send, and the values random.randint returns in it
SteadyFrameInputs == {<<10>>}
SteadyRandIds == {1000}
IdInputs == {<<t, rnd>> : t \in 1..MaxTime, rnd \in RandIds}

Init ==
    /\ InitCommon
    /\ adminPassword \in PasswordConfigs
    /\ serial = TRUE
    /\ flaky = FALSE
    /\ requests = [h \in Handlers |-> NotCounted]

Request(h) ==
    \/ \E s \in Sessions, p \in PromptInputs, n \in SteadyFrameInputs :
            GenerateStart(h, s, p, n, FALSE)
    \/ \E s \in Sessions, pw \in PasswordInputs : Login(h, s, pw)
    \/ \E s \in Sessions : Logout(h, s)
    \/ \E s \in Sessions : Stats(h, s)
    \/ \E s \in Sessions, id \in IdInputs : DeleteStart(h, s, id)

Next ==
    \/ Request("h1")
    \/ GenerateStep("h1", SteadyRandIds)
    \/ DeleteStep("h1")
    \/ Return("h1")

Spec == Init /\ [][Next]_vars

----------------------------------------------------------------------------
(* Two workers handling /generate and /admin/delete requests concurrently.  *)
(* The server has recorded one video at clock reading 1, session s1 has     *)
(* logged in and the clock has since been read at MaxTime - 1, so that the  *)
(* videos of the runs to come are stamped MaxTime.                          *)

FirstVideo ==
    [id |-> <<1, 1000>>, filename |-> 1, prompt |-> <<"a">>, num_frames |-> 10]

\* the video ids the clients of this specification send
ConcIdInputs == {<<1, 1000>>, <<MaxTime, 1000>>, <<MaxTime, 9999>>}

InitConc ==
    /\ adminPassword = "pw"
    /\ serial = FALSE
    /\ flaky = FALSE
    /\ session = [s \in Sessions |-> s = "s1"]
    /\ metaFile = <<[videos |-> <<FirstVideo>>, total_generated |-> 1]>>
    /\ videoFiles = {1}
    /\ frames = [i \in FrameIdx |-> Absent]
    /\ now = MaxTime - 1
    /\ hs = [h \in Handlers |-> IdleH]
    /\ genOK = 1
    /\ clip = NoClip
    /\ requests = [h \in Handlers |-> NotCounted]

NextConc ==
    \E h \in Handlers :
        \/ GenerateStart(h, "s1", <<"a">>, <<10>>, FALSE)
        \/ \E id \in ConcIdInputs : DeleteStart(h, "s1", id)
        \/ GenerateStep(h, SteadyRandIds)
        \/ SaveMetaFail(h)
        \/ DeleteStep(h)
        \/ Return(h)

SpecConc == InitConc /\ [][NextConc]_vars

----------------------------------------------------------------------------
(* create_video alone, lines 100-109, on frame lists of every length from 1 *)
(* to MaxClipFrames: clip.n is len(frame_paths), clip.len the length of the *)
(* clip in frames                                                           *)

InitVideo ==
    /\ session = [s \in Sessions |-> FALSE]
    /\ metaFile = NoFile
    /\ videoFiles = {}
    /\ frames = [i \in FrameIdx |-> Absent]
    /\ now = 0
    /\ hs = [h \in Handlers |-> IdleH]
    /\ genOK = 0
    /\ \E n \in 1..MaxClipFrames :
          clip = [n |-> n, len |-> n, stage |-> "clip"]
    /\ adminPassword = None
    /\ serial = TRUE
    /\ flaky = FALSE
    /\ requests = [h \in Handlers |-> NotCounted]

\* lines 104-106: a clip shorter than 4 seconds is looped
Loop ==
    /\ clip.stage = "clip"
    /\ clip.n < MinSeconds * fps
    /\ clip' = [clip EXCEPT !.len = num_loops(clip.n) * clip.n,
                            !.stage = "looped"]
    /\ UNCHANGED <<adminPassword, serial, flaky, session, metaFile, videoFiles,
                   frames, now, hs, genOK,
                   requests>>

\* line 107: ... and cut to its first 4 seconds
TrimShort ==
    /\ clip.stage = "looped"
    /\ clip' = [clip EXCEPT !.len = Subclipped(clip.len, MinSeconds),
                            !.stage = "written"]
    /\ UNCHANGED <<adminPassword, serial, flaky, session, metaFile, videoFiles,
                   frames, now, hs, genOK,
                   requests>>

\* lines 108-109: a clip longer than 6 seconds is cut to its first 6 seconds
TrimLong ==
    /\ clip.stage = "clip"
    /\ ~(clip.n < MinSeconds * fps)
    /\ clip.n > MaxSeconds * fps
    /\ clip' = [clip EXCEPT !.len = Subclipped(clip.len, MaxSeconds),
                            !.stage = "written"]
    /\ UNCHANGED <<adminPassword, serial, flaky, session, metaFile, videoFiles,
                   frames, now, hs, genOK,
                   requests>>

\* lines 104, 108: any other clip is written as it is
Keep ==
    /\ clip.stage = "clip"
    /\ ~(clip.n < MinSeconds * fps)
    /\ ~(clip.n > MaxSeconds * fps)
    /\ clip' = [clip EXCEPT !.stage = "written"]
    /\ UNCHANGED <<adminPassword, serial, flaky, session, metaFile, videoFiles,
                   frames, now, hs, genOK,
                   requests>>

NextVideo == Loop \/ TrimShort \/ TrimLong \/ Keep

SpecVideo == InitVideo /\ [][NextVideo]_vars

----------------------------------------------------------------------------
(* Claims about the generation pipeline, checked under SpecFetch *)

\* handler h is inside generate_frames (called at line 203, returning at 91)
InGenerateFrames(h) ==
    hs[h].pc \in {"get", "inflight", "backoff", "pause", "collect"}

\* C4: for every integer num_frames of the request, generate_frames is called
\* with that number when it lies in 10..20 and with 15 otherwise, and never
\* with a count outside 10..20.
C4_OrchestratorCount ==
    \A h \in Handlers :
        InGenerateFrames(h) =>
            /\ hs[h].num_frames \in 10..20
            /\ hs[h].reqFrames # <<>> =>
                 LET n == hs[h].reqFrames[1]
                 IN  hs[h].num_frames = IF 10 <= n /\ n <= 20 THEN n ELSE 15

\* generate_frames runs with 15 frames for a request of 21
C4_Witness ==
    /\ InGenerateFrames("h1")
    /\ hs["h1"].reqFrames = <<21>>
    /\ hs["h1"].num_frames = 15

\* the last entry of a non-empty list
Last(q) == q[Len(q)]

\* generate_frames has returned to line 203 of handler h: with frames (the
\* handler is about to build the video) or with none (it has answered 500)
FramesReturned(h) ==
    \/ hs[h].pc = "create"
    \/ hs[h].pc = "done" /\ hs[h].error = "Failed to generate frames"

\* C5: generate_frames returns exactly the paths of the frames whose fetch
\* succeeded (their files are in the frames directory), in increasing index
\* order, at most num_frames of them; it returns none only when every frame
\* has failed, and only then does /generate answer 'Failed to generate frames'.
C5_SuccessfulFramesInOrder ==
    \A h \in Handlers :
        FramesReturned(h) =>
            LET got == hs[h].gv_frame_paths
                N   == hs[h].num_frames
            IN  /\ Len(got) <= N
                /\ \A k \in 1..Len(got) : \E i \in 0..(N - 1) : got[k] = Path(i)
                /\ \A k \in 1..(Len(got) - 1) : got[k][1] < got[k + 1][1]
                /\ \A i \in 0..(N - 1) :
                      (frames[i] # Absent) <=> (\E k \in 1..Len(got) : got[k] = Path(i))
                /\ (got = <<>>) <=> (hs[h].pc = "done")
                /\ (got = <<>>) =>
                      /\ Len(hs[h].frame_paths) = N
                      /\ \A k \in 1..N : hs[h].frame_paths[k] = NoPath
                      /\ hs[h].code = 500

\* 15 frames requested, frame 3 fails for good, the other 14 are returned
C5_Witness ==
    /\ hs["h1"].pc = "create"
    /\ hs["h1"].num_frames = 15
    /\ Len(hs["h1"].gv_frame_paths) = 14
    /\ frames[3] = Absent
    /\ frames[14] = "h1"

\* handler h is inside generate_image_async for frame hs[h].i
InFetcher(h) == hs[h].pc \in {"get", "inflight", "backoff"}

\* a step in which generate_image_async returns for the frame of handler h
FetcherReturns(h) ==
    /\ InFetcher(h)
    /\ hs'[h].pc \in {"pause", "collect"}

\* C9, in every state: at most 5 requests are sent for a frame, a request is
\* sent only while every earlier attempt for the frame has failed, and when
\* generate_frames has gone through its loop every frame has an outcome.
C9_FetcherState ==
    \A h \in Handlers :
        /\ InFetcher(h) =>
              /\ hs[h].sent <= 5
              /\ hs[h].failures <= hs[h].sent
              /\ hs[h].pc = "inflight" => hs[h].failures = hs[h].sent - 1
              /\ hs[h].pc = "inflight" => frames[hs[h].i] = Absent
        /\ hs[h].pc = "collect" => Len(hs[h].frame_paths) = hs[h].num_frames
        /\ hs[h].pc \in {"pause", "collect"} =>
              /\ hs[h].sent >= 1
              /\ Len(hs[h].frame_paths) = hs[h].i + 1

\* C9, in every step in which the fetcher returns: it returns the frame's
\* path exactly when the attempt got 200, and then the frame's file exists;
\* it returns None exactly when 5 attempts have failed, and then no file of
\* that index exists; after a frame that is not the last comes the next frame.
C9_FetcherStep ==
    \A h \in Handlers :
        FetcherReturns(h) =>
            LET i   == hs[h].i
                res == Last(hs'[h].frame_paths)
            IN  /\ hs'[h].frame_paths = Append(hs[h].frame_paths, res)
                /\ res \in {Path(i), NoPath}
                /\ (res = Path(i)) <=> (hs[h].pc = "inflight" /\ hs'[h].status = "200")
                /\ (res = Path(i)) => frames'[i] = h
                /\ (res = NoPath) <=> (hs'[h].failures = 5 /\ hs'[h].sent = 5)
                /\ (res = NoPath) => frames'[i] = Absent
                /\ hs'[h].sent <= 5
                /\ (hs'[h].pc = "pause") <=> (i < hs[h].num_frames - 1)

\* a step in which a response of 200 arrives
Gets200(h) == hs[h].pc = "inflight" /\ hs'[h].status = "200"

\* C9: generate_image_async sends at most 5 requests per frame, stops at the
\* first 200 and reports the written frame file, reports failure if and only
\* if all 5 attempts failed, and a failed frame does not stop the later frames.
C9_FetcherRetries ==
    /\ []C9_FetcherState
    /\ [][C9_FetcherStep]_vars
    /\ [][\A h \in Handlers : Gets200(h) => FetcherReturns(h)]_vars

\* frame 3 has failed after 5 requests and frame 4 is being requested
C9_Witness ==
    /\ hs["h1"].pc = "inflight"
    /\ hs["h1"].i = 4
    /\ hs["h1"].frame_paths = <<Path(0), Path(1), Path(2), NoPath>>
    /\ hs["h1"].failures = 0

\* C10, for one handler in one step: a 429 on attempt k (1-based) starts a
\* wait of k*5 seconds, another status a wait of 3 seconds, a transport error
\* a wait of 3 seconds unless the attempt was the last; every wait is followed
\* by the next attempt for the same frame; no wait starts after the 5th attempt.
C10_Step(h) ==
    LET r == hs[h]
        q == hs'[h]
    IN  /\ (r.pc = "inflight" /\ q.status = "429") =>
              (q.pc = "backoff" /\ q.wait = (r.attempt + 1) * 5)
        /\ (r.pc = "inflight" /\ q.status = "503") =>
              (q.pc = "backoff" /\ q.wait = 3)
        /\ (r.pc = "inflight" /\ q.status = "exc" /\ r.attempt < 4) =>
              (q.pc = "backoff" /\ q.wait = 3)
        /\ (r.pc = "inflight" /\ q.status = "exc" /\ r.attempt = 4) =>
              q.pc # "backoff"
        /\ (r.pc = "backoff" /\ q # r) =>
              (q.pc = "get" /\ q.i = r.i /\ q.attempt = r.attempt + 1)
        /\ (r.pc = "inflight" /\ q.pc = "backoff") => r.attempt < 4

\* C10: in the fetcher every backoff wait is followed by a retry of the same
\* frame (429: k*5 seconds, other status: 3 seconds, transport error: 3 seconds
\* except on the final attempt), and no wait follows the failed 5th attempt.
C10_EveryWaitThenRetry == [][\A h \in Handlers : C10_Step(h)]_vars

----------------------------------------------------------------------------
(* Claims about the server handling one request at a time, checked under Spec *)

\* the persisted document, as a reader of video_metadata.json sees it
Doc == load_metadata

\* C1: with requests handled one at a time, the persisted total_generated
\* equals the number of /generate requests that have returned success: one
\* more with each successful generation, unchanged by a failed generation and
\* by every delete.
C1_TotalCountsSuccesses == Doc.total_generated = genOK

\* 3 videos generated and 2 of them deleted: the counter is 3, 1 video is stored
C1_Witness ==
    /\ genOK = 3
    /\ Doc.total_generated = 3
    /\ Len(Doc.videos) = 1
    /\ Cardinality(videoFiles) = 1

\* q without its k-th entry
Without(q, k) == SubSeq(q, 1, k - 1) \o SubSeq(q, k + 1, Len(q))

\* C3, for one handler in one step of an authorized delete: an unknown id is
\* answered 404 with the document and the files untouched; for a known id the
\* file of the record is removed and no other file, and the document written
\* is the one before without the one record of that id.
C3_Step(h) ==
    LET r == hs[h]
        q == hs'[h]
    IN  /\ (r.pc = "idle" /\ q.kind = "delete" /\ session[q.sess]) =>
              IF \E k \in 1..Len(Doc.videos) : Doc.videos[k].id = q.video_id
              THEN q.pc = "dremove" /\ UNCHANGED <<metaFile, videoFiles>>
              ELSE q.pc = "done" /\ q.code = 404
                   /\ UNCHANGED <<metaFile, videoFiles>>
        /\ (r.pc = "dremove" /\ q.pc # "dremove") =>
              \E k \in 1..Len(Doc.videos) :
                  /\ Doc.videos[k].id = r.video_id
                  /\ Doc.videos[k].filename \in videoFiles
                  /\ videoFiles' = videoFiles \ {Doc.videos[k].filename}
                  /\ UNCHANGED metaFile
        /\ (r.pc = "dsave" /\ q.pc # "dsave") =>
              /\ q.pc = "done" /\ q.code = 200
              /\ UNCHANGED videoFiles
              /\ \E k \in 1..Len(Doc.videos) :
                    /\ Doc.videos[k].id = r.video_id
                    /\ Doc.videos[k].filename \notin videoFiles
                    /\ metaFile' = <<[Doc EXCEPT !.videos = Without(@, k)]>>
                    /\ \A j \in 1..Len(Doc.videos) :
                          Doc.videos[j].id = r.video_id => j = k

IsStripOf(p, raw) ==
    /\ \E a, b \in 0..Len(raw) :
          /\ a + Len(p) + b = Len(raw)
          /\ \A k \in 1..Len(raw) :
                IF k <= a \/ k > a + Len(p) THEN raw[k] = " "
                                              ELSE raw[k] = p[k - a]
    /\ p # <<>> => (p[1] # " " /\ p[Len(p)] # " ")

\* the number of frames of the run of handler record r that were fetched
FetchedCount(r) ==
    Cardinality({k \in 1..Len(r.frame_paths) : r.frame_paths[k] # NoPath})

\* a step in which handler h answers a /generate request with success
GenerateSucceeds(h) ==
    /\ hs[h].kind = "generate"
    /\ hs[h].pc # "done"
    /\ hs'[h].pc = "done"
    /\ hs'[h].code = 200

\* what C6 says of a successful /generate except for the record's prompt: the
\* document written has the new record first and the records stored before
\* after it in their order, and the record's num_frames is the number of
\* frames fetched, which is also the response's frames_generated
C6_RecordInFront(h) ==
    /\ metaFile' # NoFile
    /\ metaFile'[1].videos # <<>>
    /\ Tail(metaFile'[1].videos) = Doc.videos
    /\ Head(metaFile'[1].videos).num_frames = FetchedCount(hs[h])
    /\ hs'[h].frames_generated = FetchedCount(hs[h])
    /\ Head(metaFile'[1].videos).filename = hs[h].timestamp
    /\ hs[h].timestamp \in videoFiles

\* the stored records are ordered from the newest to the oldest
NewestFirst ==
    \A k \in 1..(Len(Doc.videos) - 1) :
        Doc.videos[k].filename > Doc.videos[k + 1].filename

Receives(h, k) == hs[h].pc = "idle" /\ hs'[h].kind = k

\* C8, for one step: the flag of a session is set only by a login request of
\* that session whose password is the configured, non-empty ADMIN_PASSWORD,
\* and stays until the session logs out; a delete or stats request of a
\* session without the flag is answered 401 with the document and the video
\* files untouched.
C8_Step ==
    /\ \A s \in Sessions :
          (~session[s] /\ session'[s]) =>
              \E h \in Handlers :
                  /\ Receives(h, "login")
                  /\ hs'[h].sess = s
                  /\ hs'[h].code = 200
                  /\ hs'[h].password = adminPassword
                  /\ adminPassword \notin {None, ""}
    /\ \A s \in Sessions :
          (session[s] /\ ~session'[s]) =>
              \E h \in Handlers : Receives(h, "logout") /\ hs'[h].sess = s
    /\ \A h \in Handlers :
          ((Receives(h, "delete") \/ Receives(h, "stats"))
                /\ ~session[hs'[h].sess]) =>
              /\ hs'[h].pc = "done"
              /\ hs'[h].code = 401
              /\ UNCHANGED <<metaFile, videoFiles>>

\* C8, in every state: without a configured password no session has the flag
\* and no handler is deleting, and the handler that is deleting serves a
\* session that had the flag when the request came
C8_State ==
    /\ adminPassword \in {None, ""} =>
          /\ \A s \in Sessions : ~session[s]
          /\ \A h \in Handlers : hs[h].pc \notin {"dremove", "dsave"}
          /\ \A h \in Handlers :
                hs[h].kind \in {"delete", "stats"} => hs[h].code = 401
    /\ \A h \in Handlers :
          hs[h].pc \in {"dremove", "dsave"} => session[hs[h].sess]

\* C8: a session has the admin flag only after a login with the configured,
\* non-empty password and no logout since; delete and stats requests of a
\* session without the flag get 401 and change nothing; with ADMIN_PASSWORD
\* unset no request ever sets the flag and no delete takes effect.
C8_AdminGate == []C8_State /\ [][C8_Step]_vars

\* session s1 is logged in, session s2 is not, and the delete request of s2
\* for a stored video has been answered 401
C8_Witness ==
    /\ session["s1"] /\ ~session["s2"]
    /\ hs["h1"].kind = "delete" /\ hs["h1"].sess = "s2"
    /\ hs["h1"].pc = "done" /\ hs["h1"].code = 401
    /\ \E k \in 1..Len(Doc.videos) : Doc.videos[k].id = hs["h1"].video_id

----------------------------------------------------------------------------
(* The claim about create_video, checked under SpecVideo *)

\* C7: for a list of n >= 1 frames at 24 fps, create_video loops a clip of
\* n < 96 frames floor(96/n) + 1 times, to more than 96 frames, and cuts it to
\* exactly 96 frames (4 s); cuts a clip of n > 144 frames to exactly 144
\* frames (6 s); leaves a clip of 96 <= n <= 144 frames as it is.  The clip
\* written lasts between 4 and 6 seconds.
C7_DurationNormalised ==
    /\ clip.stage = "looped" =>
          /\ clip.n < 96
          /\ clip.len = ((96 \div clip.n) + 1) * clip.n
          /\ clip.len > 96
    /\ clip.stage = "written" =>
          /\ clip.n < 96 => clip.len = 96
          /\ clip.n > 144 => clip.len = 144
          /\ (96 <= clip.n /\ clip.n <= 144) => clip.len = clip.n
          /\ 4 * 24 <= clip.len /\ clip.len <= 6 * 24
          /\ clip.len = FinalFrames(clip.n)

\* a clip of 15 frames has been looped 7 times, to 105 frames
C7_Witness ==
    /\ clip.stage = "looped"
    /\ clip.n = 15
    /\ clip.len = 105

----------------------------------------------------------------------------
(* The claim about concurrent handlers, checked under SpecConc *)

\* no handler is serving a request
AllIdle == \A h \in Handlers : hs[h].pc = "idle"

\* C2: for every interleaving of the load_metadata and save_metadata steps of
\* concurrently running handlers, the persisted total_generated is never
\* lower in a later document than in an earlier one, and once all handlers
\* have finished it has grown by the number of successful generations.
C2_CounterSurvivesRaces ==
    /\ [][Doc'.total_generated >= Doc.total_generated]_vars
    /\ [](AllIdle => Doc.total_generated = genOK)

----------------------------------------------------------------------------
(* Further claims about the generation pipeline, checked under SpecFetch *)

\* the requests of the run of handler h that have been sent and not answered
Unanswered(h) ==
    hs[h].sent - hs[h].failures - (IF hs[h].status = "200" THEN 1 ELSE 0)

\* C11, in every state of a run inside generate_frames: the frames before the
\* one being fetched all have their outcome, at most one request of the run
\* is unanswered, and a pause lasts 2 seconds and never follows the last frame
C11_State ==
    \A h \in Handlers :
        /\ InFetcher(h) =>
              /\ hs[h].i \in 0..(hs[h].num_frames - 1)
              /\ Len(hs[h].frame_paths) = hs[h].i
        /\ InGenerateFrames(h) =>
              /\ Unanswered(h) \in {0, 1}
              /\ (Unanswered(h) = 1) <=> (hs[h].pc = "inflight")
        /\ hs[h].pc = "pause" =>
              /\ hs[h].wait = 2
              /\ hs[h].i < hs[h].num_frames - 1
              /\ Len(hs[h].frame_paths) = hs[h].i + 1

\* C11, in every step of a run: the first frame fetched is frame 0; the
\* frame index changes only when a pause is over, and then by one; the first
\* request for a frame other than frame 0 is sent right after that; the loop
\* is left right after the outcome of the last frame.
C11_Step ==
    \A h \in Handlers :
        LET r == hs[h]
            q == hs'[h]
        IN  /\ (r.pc = "cleanup" /\ q.pc = "get") => q.i = 0 /\ q.sent = 0
            /\ (InGenerateFrames(h) /\ q.kind = "generate" /\ q.i # r.i) =>
                  /\ r.pc = "pause"
                  /\ q.pc = "get"
                  /\ q.i = r.i + 1
                  /\ q.sent = 0
            /\ (q.pc = "inflight" /\ r.pc # "inflight" /\ q.sent = 1) =>
                  /\ r.pc = "get"
                  /\ r.sent = 0
            /\ (InFetcher(h) /\ q.pc = "collect") => r.i = r.num_frames - 1

\* C11: within one run the frames are fetched one at a time in index order:
\* the first request for frame i+1 is sent only after frame i has its outcome
\* and a pause of 2 seconds is over, at most one request of the run is in
\* flight, and no pause follows the last frame.
C11_OneFrameAtATime == []C11_State /\ [][C11_Step]_vars

\* frame 0 has failed, the pause is over and the first request for frame 1 is
\* in flight
C11_Witness ==
    /\ hs["h1"].pc = "inflight"
    /\ hs["h1"].i = 1
    /\ hs["h1"].sent = 1
    /\ hs["h1"].frame_paths = <<NoPath>>

\* the frames directory holds no file
FramesDirEmpty == \A i \in DOMAIN frames : frames[i] = Absent

\* handler h has the response of a /generate request whose prompt it accepted
GenerateReturned(h) ==
    /\ hs[h].kind = "generate"
    /\ hs[h].pc = "done"
    /\ hs[h].code # 400

\* handler h is about to send the first request of its run
FetchingBegins(h) ==
    /\ hs[h].pc = "get"
    /\ hs[h].i = 0
    /\ hs[h].sent = 0
    /\ hs[h].attempt = 0

\* C12: with requests handled one at a time, the frames directory is empty
\* whenever a /generate handler returns after it has accepted the prompt
\* (with success, with 'Failed to generate frames', or with the error of a
\* failed assembly), and when the fetching of frames begins.
C12_FramesDirCleared ==
    \A h \in Handlers :
        /\ GenerateReturned(h) =>
              /\ FramesDirEmpty
              /\ hs[h].code \in {200, 500}
              /\ hs[h].code = 500 =>
                    hs[h].error \in {"Failed to generate frames", "create_video"}
        /\ FetchingBegins(h) => FramesDirEmpty

\* the assembly of 14 fetched frames has failed and the error has been
\* returned: the frames directory is empty
C12_Witness ==
    /\ GenerateReturned("h1")
    /\ hs["h1"].code = 500
    /\ hs["h1"].error = "create_video"
    /\ Len(hs["h1"].gv_frame_paths) = 14
    /\ FramesDirEmpty

\* create_video has written the video of the run of handler h
VideoProduced(h) ==
    /\ hs[h].kind = "generate"
    /\ hs[h].pc \in {"cleanup2", "load", "save"} \/ (hs[h].pc = "done" /\ hs[h].code = 200)

\* C16: for every video produced through /generate the count asked of
\* generate_frames lies in 10..20 and the number n of assembled frames in
\* 1..20, so that the natural duration n/24 s is below 4 seconds: the clip is
\* looped and cut to 4 seconds, never cut to 6 seconds, and the video has
\* exactly 96 frames at 24 fps.
C16_AlwaysFourSeconds ==
    /\ \A h \in Handlers :
          /\ (hs[h].kind = "generate" /\ hs[h].pc \notin {"idle", "done"}) =>
                hs[h].num_frames \in 10..20
          /\ VideoProduced(h) =>
                LET n == Len(hs[h].gv_frame_paths)
                IN  /\ n \in 1..20
                    /\ n <= hs[h].num_frames
                    /\ n < 4 * 24
                    /\ ~(n > 6 * 24)
                    /\ hs[h].video_len = Subclipped(num_loops(n) * n, 4)
                    /\ hs[h].video_len = 96
                    /\ hs[h].timestamp \in videoFiles
    /\ \A n \in 1..20 : FinalFrames(n) = 96 /\ num_loops(n) * n >= 96 + 1

\* a video of 4 seconds has been assembled from the 8 frames that were
\* fetched of the 10 asked for
C16_Witness ==
    /\ VideoProduced("h1")
    /\ hs["h1"].num_frames = 10
    /\ Len(hs["h1"].gv_frame_paths) = 8
    /\ hs["h1"].video_len = 96

----------------------------------------------------------------------------
(* Further claims about concurrent handlers, checked under SpecConc *)

\* the run with locals r has entered generate_frames and has not yet passed
\* its frames through create_video
BeforeAssembly(r) ==
    /\ r.kind = "generate"
    /\ r.pc \in {"get", "inflight", "backoff", "pause", "collect", "create"}

\* with the frames directory fr, the frame list of the run of handler h, with
\* locals r, names a file that is missing or that h has not written
Damaged(h, r, fr) ==
    /\ BeforeAssembly(r)
    /\ \E k \in 1..Len(r.frame_paths) :
          /\ r.frame_paths[k] # NoPath
          /\ fr[r.frame_paths[k][1]] # h

\* a step in which handler g runs cleanup_frames (line 201, 213 or 239)
CleansUp(g) ==
    /\ hs[g].pc \in {"cleanup", "cleanup2", "except"}
    /\ hs'[g].pc # hs[g].pc

\* a step in which handler g writes the file of frame i (lines 48-50)
WritesFrame(g, i) ==
    /\ hs[g].pc = "inflight"
    /\ hs[g].i = i
    /\ hs'[g].status = "200"

\* C13, in every step: the frame list of a run comes to name a missing or
\* foreign file only by the step of another /generate handler that runs
\* cleanup_frames or writes a frame file of the same name; and such a step on
\* a file the run has listed leaves the list naming a missing or foreign file.
C13_Step ==
    \A h \in Handlers :
        /\ (~Damaged(h, hs[h], frames) /\ Damaged(h, hs'[h], frames')) =>
              \E g \in Handlers \ {h} :
                  /\ hs[g].kind = "generate"
                  /\ \/ CleansUp(g)
                     \/ \E i \in DOMAIN frames :
                           WritesFrame(g, i) /\ frames[i] = h
        /\ \A g \in Handlers \ {h}, k \in 1..Len(hs[h].frame_paths) :
              (/\ BeforeAssembly(hs[h])
               /\ hs[h].frame_paths[k] # NoPath
               /\ frames[hs[h].frame_paths[k][1]] = h
               /\ \/ CleansUp(g)
                  \/ WritesFrame(g, hs[h].frame_paths[k][1]))
              => /\ frames'[hs[h].frame_paths[k][1]] # h
                 /\ Damaged(h, hs'[h], frames')

\* C13: with two /generate requests running concurrently a run's frame list
\* can come to name a file that is missing or not its own, and it does so
\* exactly by the other request's cleanup_frames removing, or the other
\* request's frame write overwriting, a frame file the run has written and
\* not yet passed through create_video.
C13_FramesRace == [][C13_Step]_vars

\* h1 has fetched frames 0 and 1; h2 has then started, its cleanup_frames has
\* removed both files and it has written its own frame 0: h1's list names the
\* file of frame 0, which is h2's, and the file of frame 1, which is missing
C13_Witness ==
    /\ hs["h1"].kind = "generate" /\ hs["h1"].pc \in {"pause", "get", "inflight"}
    /\ hs["h1"].frame_paths = <<Path(0), Path(1)>>
    /\ hs["h2"].kind = "generate"
    /\ frames[0] = "h2"
    /\ frames[1] = Absent
    /\ Damaged("h1", hs["h1"], frames)

----------------------------------------------------------------------------
(* One worker serving /generate requests of 10 frames against a flaky image *)
(* service, with the HTTP requests of every run counted.  The worker thread *)
(* keeps running: a request in flight is answered, a sleep ends, and every  *)
(* other statement of the handler is executed.                              *)

InitLive ==
    /\ InitCommon
    /\ adminPassword = None
    /\ serial = TRUE
    /\ flaky = TRUE
    /\ requests = [h \in Handlers |-> <<0>>]

\* the prompts the clients of this specification send
LivePromptInputs == {<<>>, <<"a">>}

\* /generate requests arrive until the first video has been recorded
NextLive ==
    \/ /\ metaFile = NoFile
       /\ \E p \in LivePromptInputs, n \in SteadyFrameInputs, out \in BOOLEAN :
             GenerateStart("h1", "s1", p, n, out)
    \/ GenerateStep("h1", SteadyRandIds)
    \/ Return("h1")

\* asyncio.run (line 203) and the handler's thread run the accepted request
\* on: weak fairness of the handler's steps
Fairness == WF_vars(GenerateStep("h1", SteadyRandIds))

SpecLive == InitLive /\ [][NextLive]_vars /\ Fairness

\* handler h is running a /generate request whose prompt it has accepted
Accepted(h) ==
    /\ hs[h].kind = "generate"
    /\ hs[h].pc \notin {"idle", "done"}

\* handler h has the response of its request
Returned(h) == hs[h].pc = "done" /\ hs[h].code \in {200, 500}

\* C14, in every state of a run: no frame has had more than 5 requests, every
\* frame gone through has its outcome, a path or None, and the run has sent
\* at most 5 * num_frames requests, and at least one for each of its frames
C14_State ==
    \A h \in Handlers :
        (hs[h].kind = "generate" /\ hs[h].code # 400 /\ hs[h].pc # "idle") =>
            /\ hs[h].sent <= 5
            /\ Len(hs[h].frame_paths) <= hs[h].num_frames
            /\ \A k \in 1..Len(hs[h].frame_paths) :
                  hs[h].frame_paths[k] \in {Path(k - 1), NoPath}
            /\ requests[h][1] <= 5 * hs[h].num_frames
            /\ requests[h][1] >= Len(hs[h].frame_paths)
            /\ hs[h].pc \in {"create", "cleanup2", "load", "save", "except",
                             "done"} =>
                  Len(hs[h].frame_paths) = hs[h].num_frames

\* C14: if every HTTP request is answered or raises and every wait ends, every
\* accepted /generate request returns a response, with success or an error;
\* each of its frames has its outcome after at most 5 attempts and the run
\* sends at most 5 * num_frames HTTP requests.
C14_RunTerminates ==
    /\ []C14_State
    /\ \A h \in Handlers : Accepted(h) ~> Returned(h)

\* the image service was out during the whole run: each of the 10 frames has
\* failed after 5 requests, 50 requests in all, and the error is returned
C14_Witness ==
    /\ Returned("h1")
    /\ hs["h1"].error = "Failed to generate frames"
    /\ hs["h1"].num_frames = 10
    /\ requests["h1"] = <<50>>

----------------------------------------------------------------------------
(* Two workers handling /generate requests concurrently, and /admin/delete  *)
(* requests while no generation is running.  It starts as SpecConc does:    *)
(* the runs to come are stamped MaxTime, the same clock second.             *)

\* no handler is inside delete_video
NoDeleteRunning == \A g \in Handlers : hs[g].pc \notin {"dremove", "dsave"}

NextTwin ==
    \E h \in Handlers :
        \/ NoDeleteRunning /\ GenerateStart(h, "s1", <<"a">>, <<10>>, FALSE)
        \/ AllIdle /\ \E id \in ConcIdInputs : DeleteStart(h, "s1", id)
        \/ GenerateStep(h, RandIds)
        \/ DeleteStep(h)
        \/ Return(h)

SpecTwin == InitConc /\ [][NextTwin]_vars

(* The claim about records of the same clock second, checked under SpecTwin *)

\* C15: in every state of the metadata document, also after two generations
\* that completed within the same clock second and after a delete, distinct
\* records have distinct ids and distinct filenames, and the file of every
\* record is in the videos directory (but for the moment in which a delete
\* has removed the file and not yet written the document).
C15_RecordsDistinct ==
    \A j, k \in 1..Len(Doc.videos) :
        /\ j # k => Doc.videos[j].id # Doc.videos[k].id
        /\ j # k => Doc.videos[j].filename # Doc.videos[k].filename
        /\ NoDeleteRunning => Doc.videos[k].filename \in videoFiles

----------------------------------------------------------------------------
(* The claim about failed /generate requests, checked under SpecFetch *)

\* handler h has answered a /generate request with an error
GenerateFailed(h) ==
    /\ hs[h].kind = "generate"
    /\ hs[h].pc = "done"
    /\ hs[h].code \in {400, 500}

\* every file of the videos directory has its record in the document
NoOrphanVideo ==
    \A f \in videoFiles :
        \E k \in 1..Len(Doc.videos) : Doc.videos[k].filename = f

\* C17, in every state in which a /generate request has returned an error
\* (with requests handled one at a time, on a fresh installation): the
\* document is the one of before the request, and no video file is without
\* a record
C17_State ==
    \A h \in Handlers :
        GenerateFailed(h) =>
            /\ Doc.total_generated = genOK
            /\ Len(Doc.videos) = genOK
            /\ NoOrphanVideo

\* C17: every /generate request that returns an error status (400, or 500
\* for a failure in frame generation, assembly or metadata recording) leaves
\* the metadata document unchanged and adds no file to the videos directory:
\* the document is written only by the step that returns success, and no
\* video file is left without a record by a failed request.
C17_FailureLeavesNothing ==
    /\ []C17_State
    /\ [][\A h \in Handlers :
            (hs[h].kind = "generate" /\ metaFile' # metaFile) =>
                (hs'[h].pc = "done" /\ hs'[h].code = 200)]_vars

====
